---- MODULE Spec2Model ----
(***************************************************************************)
(* Model of script/metrics.py (CommDy individual metrics).                *)
(*                                                                         *)
(* The observation table df is a sequence of rows                          *)
(*   [time, group, individual, gcolor, icolor].                            *)
(* A missing value is Null.  pandas keeps a missing value either as the    *)
(* float NaN (what read_csv produces) or as None (object columns built     *)
(* from Python values); dropna/notna/isnull treat both alike, Python's ==  *)
(* and != do not.  nanNull records which one the table holds.             *)
(*                                                                         *)
(* Metric values are floats in the code; here they are the exact rationals *)
(* <<n, d>> in lowest terms, d > 0, that the float operations approximate, *)
(* and <<0, 0>> stands for the float NaN.  A call returns                  *)
(*   [exc |-> "", values |-> list]  or  [exc |-> <exception>, values |-> <<>>]. *)
(***************************************************************************)
EXTENDS Integers, Sequences, FiniteSets, TLC

VARIABLES df, nanNull, ret

vars == <<df, nanNull, ret>>

\* ---- bounds of the explored tables ------------------------------------
MaxRows == 2
MaxTime == 2
SeqRows == 3
SeqTime == 3
PeerRows == 2
PeerTime == 2

\* ---- value domains ------------------------------------------------------
Null == "null"
\* identifiers in ascending (sorted) order
IndividualOrder == <<"X", "Y">>
Individuals == {IndividualOrder[k] : k \in DOMAIN IndividualOrder}
Groups == {"g1", "g2"}
Colors == {"A", "B"}
\* the values an optional field takes
OptionalGroups == {"g1", "g2", Null}
OptionalColors == {"A", "B", Null}
OneColorOrNone == {"A", Null}

isnull(x) == x = Null
notna(x) == x # Null

\* Python's == on two cell values: NaN is unequal to everything, itself included.
PyEq(a, b) == IF isnull(a) /\ isnull(b) THEN ~nanNull ELSE a = b
PyNe(a, b) == ~PyEq(a, b)

\* ---- exact arithmetic standing for Python float arithmetic ---------------
Abs(n) == IF n < 0 THEN -n ELSE n

RECURSIVE GCD(_, _)
GCD(a, b) == IF b = 0 THEN a ELSE GCD(b, a % b)

Rat(n, d) ==
  LET g == GCD(Abs(n), d) IN <<n \div g, d \div g>>

FromInt(n) == <<n, 1>>
NaN == <<0, 0>>
RatAdd(p, q) == Rat(p[1] * q[2] + q[1] * p[2], p[2] * q[2])

RECURSIVE sum(_)
sum(items) ==
  IF Len(items) = 0 THEN FromInt(0) ELSE RatAdd(Head(items), sum(Tail(items)))

\* avg: 0.0 when the list is empty, else sum(items) / float(len(items))
avg(items) ==
  IF Len(items) = 0 THEN FromInt(0)
  ELSE LET s == sum(items) IN Rat(s[1], s[2] * Len(items))

\* ---- pandas building blocks ---------------------------------------------
Column(d, f) == [k \in DOMAIN d |-> d[k][f]]
Values(s) == {s[k] : k \in DOMAIN s}

\* DataFrame.dropna(): the rows none of whose fields is missing.  A time is an
\* orderable value and is never missing, so only the other fields are tested.
RowComplete(r) ==
  /\ notna(r.group) /\ notna(r.individual)
  /\ notna(r.gcolor) /\ notna(r.icolor)
dropna(d) == SelectSeq(d, RowComplete)

\* Series.unique(): the distinct values in order of first appearance
RECURSIVE unique(_)
unique(s) ==
  IF Len(s) = 0 THEN <<>>
  ELSE LET init == SubSeq(s, 1, Len(s) - 1)
           last == s[Len(s)]
       IN IF last \in Values(init) THEN unique(init) ELSE Append(unique(init), last)

\* df.groupby('individual'): the keys in sorted order (sort=True), and the
\* rows of one key in table order
GroupKeys(d) ==
  SelectSeq(IndividualOrder, LAMBDA i : \E k \in DOMAIN d : d[k].individual = i)
GroupRows(d, i) == SelectSeq(d, LAMBDA r : r.individual = i)

\* The loop "for _, group in df.groupby('individual'): values.append(...)":
\* the first exception raised by a group's body ends the call.
Value(v) == [exc |-> "", v |-> v]
Raise(e) == [exc |-> e, v |-> NaN]
groupby(d) == [k \in DOMAIN GroupKeys(d) |-> GroupRows(d, GroupKeys(d)[k])]
OverGroups(outcomes) ==
  LET bad == {k \in DOMAIN outcomes : outcomes[k].exc # ""}
  IN IF bad = {} THEN [exc |-> "", values |-> [k \in DOMAIN outcomes |-> outcomes[k].v]]
     ELSE [exc |-> outcomes[CHOOSE k \in bad : \A j \in bad : k <= j].exc, values |-> <<>>]

\* ---- community_stay -------------------------------------------------------
\* the loop with "offset = i" left out: every run is measured from the start
RECURSIVE StayLoopNoReset(_, _, _, _)
StayLoopNoReset(my_colors, i, offset, xs) ==
  IF i >= Len(my_colors) THEN Append(xs, Len(my_colors) - offset)
  ELSE IF PyEq(my_colors[i + 1], my_colors[i])
       THEN StayLoopNoReset(my_colors, i + 1, offset, xs)
       ELSE StayLoopNoReset(my_colors, i + 1, offset, Append(xs, i - offset))

\* the loop of lines 68-74 at Python index i, with offset and xs
RECURSIVE StayLoop(_, _, _, _)
StayLoop(my_colors, i, offset, xs) ==
  IF i >= Len(my_colors) THEN Append(xs, Len(my_colors) - offset)
  ELSE IF PyEq(my_colors[i + 1], my_colors[i])
       THEN StayLoop(my_colors, i + 1, offset, xs)
       ELSE StayLoop(my_colors, i + 1, i, Append(xs, i - offset))

StayRuns(group) == StayLoop(Column(group, "icolor"), 1, 0, <<>>)

community_stay_group(group) ==
  IF Len(group) = 0 THEN Value(FromInt(0))
  ELSE Value(avg([k \in DOMAIN StayRuns(group) |-> FromInt(StayRuns(group)[k])]))

community_stay(d) ==
  OverGroups([k \in DOMAIN groupby(d) |-> community_stay_group(groupby(d)[k])])

\* ---- cyclicity ------------------------------------------------------------
\* colors.shift(): every value moved one place down, the first place missing
shift(s) == [k \in DOMAIN s |-> IF k = 1 THEN Null ELSE s[k - 1]]
\* pandas' elementwise !=: true wherever either side is missing
SeriesNe(a, b) == [k \in DOMAIN a |-> isnull(a[k]) \/ isnull(b[k]) \/ a[k] # b[k]]
\* a count that takes the missing values in, as len() would
countWithMissing(s) == Len(s)
\* Series.count() and Series.nunique() leave missing values out
count(s) == Cardinality({k \in DOMAIN s : notna(s[k])})
nunique(s) == Cardinality({v \in Values(s) : notna(v)})

cyclicity_group(group) ==
  LET colors == Column(group, "icolor")
      mask == SeriesNe(shift(colors), colors)
      consecutive_uniques == SelectSeq([k \in DOMAIN colors |-> <<colors[k], mask[k]>>],
                                       LAMBDA p : p[2])
  IN Value(count([k \in DOMAIN consecutive_uniques |-> consecutive_uniques[k][1]])
           - nunique(colors))

cyclicity(d) ==
  OverGroups([k \in DOMAIN groupby(d) |-> cyclicity_group(groupby(d)[k])])

\* ---- dictionaries ---------------------------------------------------------
\* A dict is a function on its keys; d[key] on an absent key raises KeyError.
HasKey(dict, key) == key \in DOMAIN dict
\* a list comprehension / loop body that appends one value per row, given each
\* row's outcome: the first exception ends it
Collect(outcomes) ==
  LET bad == {k \in DOMAIN outcomes : outcomes[k].exc # ""}
  IN IF bad = {} THEN [exc |-> "", xs |-> [k \in DOMAIN outcomes |-> outcomes[k].v]]
     ELSE [exc |-> outcomes[CHOOSE k \in bad : \A j \in bad : k <= j].exc, xs |-> <<>>]
Lookup(dict, key) == IF HasKey(dict, key) THEN Value(dict[key]) ELSE Raise("KeyError")

\* ---- absenteeism ----------------------------------------------------------
\* time_gcolors: df[['time','gcolor']].drop_duplicates().dropna().groupby('time')
time_gcolors(d) ==
  LET kept == {k \in DOMAIN d : notna(d[k].gcolor)}
  IN [t \in {d[k].time : k \in kept} |-> {d[k].gcolor : k \in {j \in kept : d[j].time = t}}]

absenteeism_group(d, group) ==
  LET tg == time_gcolors(d)
      missing == {k \in DOMAIN group : ~HasKey(tg, group[k].time)}
      absent == {k \in DOMAIN group :
                   /\ PyNe(group[k].gcolor, group[k].icolor)
                   /\ group[k].icolor \in tg[group[k].time]}
  IN IF missing # {} THEN Raise("KeyError")
     ELSE Value(Rat(Cardinality(absent), Len(group)))

absenteeism(d) == OverGroups([k \in DOMAIN groupby(d) |-> absenteeism_group(d, groupby(d)[k])])

\* ---- inquisitiveness ------------------------------------------------------
inquisitiveness_group(group) ==
  LET visit == {k \in DOMAIN group :
                  PyNe(group[k].gcolor, group[k].icolor) /\ notna(group[k].gcolor)}
  IN IF Len(dropna(group)) = 0 THEN Raise("ZeroDivisionError")
     ELSE Value(Rat(Cardinality(visit), Len(dropna(group))))

inquisitiveness(d) ==
  OverGroups([k \in DOMAIN groupby(d) |-> inquisitiveness_group(groupby(d)[k])])

\* ---- compute_subgroups ----------------------------------------------------
\* the loop of lines 82-87 over the rows of df.dropna(), from row k on
RECURSIVE SubgroupsLoop(_, _, _)
SubgroupsLoop(rows, k, community_subgroups) ==
  IF k > Len(rows) THEN community_subgroups
  ELSE LET key == <<rows[k].time, rows[k].group, rows[k].icolor>>
           i == rows[k].individual
       IN SubgroupsLoop(rows, k + 1,
            [x \in DOMAIN community_subgroups \cup {key} |->
               IF x = key
               THEN (IF HasKey(community_subgroups, key)
                     THEN community_subgroups[key] \cup {i} ELSE {i})
               ELSE community_subgroups[x]])

\* subgroups built from every row with a group and an icolor, gcolor unchecked
compute_subgroups_keep_gcolor(d) ==
  SubgroupsLoop(SelectSeq(d, LAMBDA r : notna(r.group) /\ notna(r.icolor)), 1,
                [x \in {} |-> {}])

EmptyDict == [x \in {} |-> {}]
compute_subgroups(d) == SubgroupsLoop(dropna(d), 1, EmptyDict)

\* ---- avg_num_peers ----------------------------------------------------------
avg_num_peers_group(group, community_subgroups) ==
  LET rows == dropna(group)
      xs == Collect([k \in DOMAIN rows |->
              LET m == Lookup(community_subgroups,
                              <<rows[k].time, rows[k].group, rows[k].icolor>>)
              IN IF m.exc # "" THEN m ELSE Value(FromInt(Cardinality(m.v) - 1))])
  IN IF xs.exc # "" THEN Raise(xs.exc) ELSE Value(avg(xs.xs))

avg_num_peers(d, community_subgroups) ==
  OverGroups([k \in DOMAIN groupby(d) |-> avg_num_peers_group(groupby(d)[k], community_subgroups)])

\* ---- peer_synchrony ---------------------------------------------------------
adjacent_pairs(items) == [k \in 1..(Len(items) - 1) |-> <<items[k], items[k + 1]>>]

peer_synchrony_pair(prev_row, curr_row, community_subgroups) ==
  LET members1 == Lookup(community_subgroups,
                         <<prev_row.time, prev_row.group, prev_row.icolor>>)
      members2 == Lookup(community_subgroups,
                         <<curr_row.time, curr_row.group, curr_row.icolor>>)
  IN IF isnull(prev_row.group) \/ isnull(curr_row.group) THEN Value(FromInt(0))
     ELSE IF members1.exc # "" THEN members1
     ELSE IF members2.exc # "" THEN members2
     ELSE IF Cardinality(members2.v) = 1 THEN Value(FromInt(0))
     ELSE Value(Rat(Cardinality(members1.v \cap members2.v) - 1,
                    Cardinality(members2.v) - 1))

peer_synchrony_group(group, community_subgroups) ==
  LET pairs == adjacent_pairs(group)
      xs == Collect([k \in DOMAIN pairs |->
              peer_synchrony_pair(pairs[k][1], pairs[k][2], community_subgroups)])
  IN IF xs.exc # "" THEN Raise(xs.exc) ELSE Value(avg(xs.xs))

peer_synchrony(d, community_subgroups) ==
  OverGroups([k \in DOMAIN groupby(d) |-> peer_synchrony_group(groupby(d)[k], community_subgroups)])

\* ---- group_size ------------------------------------------------------------
\* df.dropna().groupby(['time','group'])['individual'].count().to_dict()
group_size_dict(d) ==
  LET rows == dropna(d)
  IN [key \in {<<rows[k].time, rows[k].group>> : k \in DOMAIN rows} |->
        Cardinality({k \in DOMAIN rows : <<rows[k].time, rows[k].group>> = key})]

\* the 'group_size' column: the looked-up count on the rows df.dropna() keeps,
\* missing (NaN) on the others once aligned with df['individual']
group_size_column(d) ==
  [k \in DOMAIN d |-> IF RowComplete(d[k])
                      THEN FromInt(group_size_dict(d)[<<d[k].time, d[k].group>>])
                      ELSE NaN]

\* Series.mean() of one group: NaN values are skipped, no value left gives NaN
nanmean(xs) ==
  LET kept == SelectSeq(xs, LAMBDA x : x # NaN)
  IN IF Len(kept) = 0 THEN NaN ELSE avg(kept)

\* pd.DataFrame(d).groupby('individual')['group_size'].mean().values.tolist()
group_size_values(d) ==
  LET keys == GroupKeys(d)
      col == group_size_column(d)
      places == [k \in DOMAIN d |-> k]
  IN [j \in DOMAIN keys |->
        LET mine == SelectSeq(places, LAMBDA k : d[k].individual = keys[j])
        IN nanmean([n \in DOMAIN mine |-> col[mine[n]]])]

\* When df.dropna() has no row, DataFrame.apply(..., 1) hands back an empty
\* DataFrame instead of a Series, and what pd.DataFrame(d) makes of it depends
\* on the pandas version: either outcome is possible.
group_size(d) ==
  IF Len(dropna(d)) = 0
  THEN {[exc |-> "", values |-> group_size_values(d)],
        [exc |-> "ValueError", values |-> <<>>]}
  ELSE {[exc |-> "", values |-> group_size_values(d)]}

\* ---- group_homogeneity ------------------------------------------------------
\* pandas' elementwise ==: false wherever either side is missing
SeriesEq(a, b) == notna(a) /\ notna(b) /\ a = b

homogeneity_dict(d) ==
  LET kept == {k \in DOMAIN d : notna(d[k].group)}
  IN [key \in {<<d[k].time, d[k].group>> : k \in kept} |->
        LET members == {k \in kept : <<d[k].time, d[k].group>> = key}
        IN Rat(Cardinality({k \in members : SeriesEq(d[k].gcolor, d[k].icolor)}),
               Cardinality(members))]

group_homogeneity_group(d, group) ==
  LET rows == dropna(group)
      xs == Collect([k \in DOMAIN rows |->
                       Lookup(homogeneity_dict(d), <<rows[k].time, rows[k].group>>)])
  IN IF xs.exc # "" THEN Raise(xs.exc) ELSE Value(avg(xs.xs))

group_homogeneity(d) == OverGroups([k \in DOMAIN groupby(d) |-> group_homogeneity_group(d, groupby(d)[k])])

\* ---- individual_apparency ---------------------------------------------------
\* {t: i for i, t in enumerate(df['time'].unique())}
time_index(d) ==
  LET u == unique(Column(d, "time"))
  IN [t \in Values(u) |-> (CHOOSE k \in DOMAIN u : u[k] = t) - 1]

Max(S) == CHOOSE x \in S : \A y \in S : y <= x
Min(S) == CHOOSE x \in S : \A y \in S : x <= y
diff(d, t2, t1) == time_index(d)[t2] - time_index(d)[t1] + 1

\* df.groupby('icolor') leaves the rows with a missing icolor out
community_apparency(d) ==
  [ic \in {d[k].icolor : k \in {j \in DOMAIN d : notna(d[j].icolor)}} |->
     LET times == {d[k].time : k \in {j \in DOMAIN d : d[j].icolor = ic}}
     IN diff(d, Max(times), Min(times))]

RECURSIVE SetSum(_, _)
SetSum(f, S) ==
  IF S = {} THEN 0
  ELSE LET x == CHOOSE y \in S : TRUE IN f[x] + SetSum(f, S \ {x})

individual_apparency_group(d, group) ==
  LET ca == community_apparency(d)
      ics == Values(Column(group, "icolor"))
  IN IF \E ic \in ics : ~HasKey(ca, ic) THEN Raise("KeyError")
     ELSE IF ics = {} THEN Value(FromInt(0))
     ELSE Value(Rat(SetSum(ca, ics), Cardinality(ics)))

individual_apparency(d) ==
  OverGroups([k \in DOMAIN groupby(d) |-> individual_apparency_group(d, groupby(d)[k])])

\* ---- community_size ---------------------------------------------------------
\* df.groupby(['time','icolor'])['individual'].count().to_dict(); the rows with
\* a missing icolor form no group.  (Line 169 computes a value nothing reads.)
community_size_dict(d) ==
  LET kept == {k \in DOMAIN d : notna(d[k].icolor)}
  IN [key \in {<<d[k].time, d[k].icolor>> : k \in kept} |->
        Cardinality({k \in kept : <<d[k].time, d[k].icolor>> = key})]

community_size_group(d, group) ==
  LET xs == Collect([k \in DOMAIN group |->
              LET n == Lookup(community_size_dict(d), <<group[k].time, group[k].icolor>>)
              IN IF n.exc # "" THEN n ELSE Value(FromInt(n.v))])
  IN IF xs.exc # "" THEN Raise(xs.exc) ELSE Value(avg(xs.xs))

community_size(d) == OverGroups([k \in DOMAIN groupby(d) |-> community_size_group(d, groupby(d)[k])])

\* ---- compute_individual_metrics ---------------------------------------------
MetricOrder ==
  <<"absenteeism", "inquisitiveness", "community_stay", "avg_num_peers",
    "peer_synchrony", "group_size", "group_homogeneity", "individual_apparency",
    "cyclicity", "community_size">>

\* the ten calls of lines 184-193, gs being the outcome of group_size
MetricCalls(d, gs) ==
  LET community_subgroups == compute_subgroups(d)
  IN [absenteeism |-> absenteeism(d),
      inquisitiveness |-> inquisitiveness(d),
      community_stay |-> community_stay(d),
      avg_num_peers |-> avg_num_peers(d, community_subgroups),
      peer_synchrony |-> peer_synchrony(d, community_subgroups),
      group_size |-> gs,
      group_homogeneity |-> group_homogeneity(d),
      individual_apparency |-> individual_apparency(d),
      cyclicity |-> cyclicity(d),
      community_size |-> community_size(d)]

\* pd.DataFrame(dict(d), columns=...): row k pairs the k-th entry of every list
AssembleRows(d, calls) ==
  LET ids == unique(Column(d, "individual"))
  IN [k \in DOMAIN ids |->
        [individual |-> ids[k],
         absenteeism |-> calls.absenteeism.values[k],
         inquisitiveness |-> calls.inquisitiveness.values[k],
         community_stay |-> calls.community_stay.values[k],
         avg_num_peers |-> calls.avg_num_peers.values[k],
         peer_synchrony |-> calls.peer_synchrony.values[k],
         group_size |-> calls.group_size.values[k],
         group_homogeneity |-> calls.group_homogeneity.values[k],
         individual_apparency |-> calls.individual_apparency.values[k],
         cyclicity |-> calls.cyclicity.values[k],
         community_size |-> calls.community_size.values[k]]]

compute_individual_metrics(d) ==
  {LET calls == MetricCalls(d, gs)
       bad == {k \in DOMAIN MetricOrder : calls[MetricOrder[k]].exc # ""}
   IN IF bad = {} THEN [exc |-> "", values |-> AssembleRows(d, calls)]
      ELSE [exc |-> calls[MetricOrder[CHOOSE k \in bad : \A j \in bad : k <= j]].exc,
            values |-> <<>>]
   : gs \in group_size(d)}

\* ---- the state machine ------------------------------------------------------
NoCall == [fn |-> "none", exc |-> "", values |-> <<>>]
Returned(name, r) == [fn |-> name, exc |-> r.exc, values |-> r.values]

\* The ingestion collaborator appends one observation before the run starts.
\* An individual has at most one row per time value and its rows arrive in
\* chronological order.  The table is fixed once a function has been called.
LoadRow(maxRows, maxTime, G, GC, IC) ==
  /\ ret = NoCall
  /\ Len(df) < maxRows
  /\ \E t \in 1..maxTime, g \in G, i \in Individuals, gc \in GC, ic \in IC :
        /\ \A k \in DOMAIN df : df[k].individual = i => df[k].time < t
        /\ df' = Append(df, [time |-> t, group |-> g, individual |-> i,
                             gcolor |-> gc, icolor |-> ic])
  /\ ret' = NoCall
  /\ UNCHANGED nanNull

CallCommunityStay ==
  /\ ret = NoCall
  /\ ret' = Returned("community_stay", community_stay(df))
  /\ UNCHANGED <<df, nanNull>>

CallCyclicity ==
  /\ ret = NoCall
  /\ ret' = Returned("cyclicity", cyclicity(df))
  /\ UNCHANGED <<df, nanNull>>

CallAbsenteeism ==
  /\ ret = NoCall
  /\ ret' = Returned("absenteeism", absenteeism(df))
  /\ UNCHANGED <<df, nanNull>>

CallInquisitiveness ==
  /\ ret = NoCall
  /\ ret' = Returned("inquisitiveness", inquisitiveness(df))
  /\ UNCHANGED <<df, nanNull>>

CallAvgNumPeers ==
  /\ ret = NoCall
  /\ ret' = Returned("avg_num_peers", avg_num_peers(df, compute_subgroups(df)))
  /\ UNCHANGED <<df, nanNull>>

CallPeerSynchrony ==
  /\ ret = NoCall
  /\ ret' = Returned("peer_synchrony", peer_synchrony(df, compute_subgroups(df)))
  /\ UNCHANGED <<df, nanNull>>

CallGroupSize ==
  /\ ret = NoCall
  /\ \E r \in group_size(df) : ret' = Returned("group_size", r)
  /\ UNCHANGED <<df, nanNull>>

CallGroupHomogeneity ==
  /\ ret = NoCall
  /\ ret' = Returned("group_homogeneity", group_homogeneity(df))
  /\ UNCHANGED <<df, nanNull>>

CallIndividualApparency ==
  /\ ret = NoCall
  /\ ret' = Returned("individual_apparency", individual_apparency(df))
  /\ UNCHANGED <<df, nanNull>>

CallCommunitySize ==
  /\ ret = NoCall
  /\ ret' = Returned("community_size", community_size(df))
  /\ UNCHANGED <<df, nanNull>>

CallComputeIndividualMetrics ==
  /\ ret = NoCall
  /\ \E r \in compute_individual_metrics(df) :
        ret' = Returned("compute_individual_metrics", r)
  /\ UNCHANGED <<df, nanNull>>

Init ==
  /\ df = <<>>
  /\ nanNull \in BOOLEAN
  /\ ret = NoCall

\* Tables that vary only the community colour of each observation.
LoadSeq == LoadRow(SeqRows, SeqTime, {"g1"}, {"A"}, OptionalColors)
NextSeq == LoadSeq \/ CallCommunityStay \/ CallCyclicity
SpecSeq == Init /\ [][NextSeq]_vars

\* Tables over every field, missing values included.
LoadAny == LoadRow(MaxRows, MaxTime, OptionalGroups, OptionalColors, OptionalColors)
Next ==
  \/ LoadAny
  \/ CallAbsenteeism
  \/ CallInquisitiveness
  \/ CallCommunityStay
  \/ CallAvgNumPeers
  \/ CallPeerSynchrony
  \/ CallGroupSize
  \/ CallGroupHomogeneity
  \/ CallIndividualApparency
  \/ CallCyclicity
  \/ CallCommunitySize
  \/ CallComputeIndividualMetrics
Spec == Init /\ [][Next]_vars

\* Tables for the subgroup metrics.  avg_num_peers reads gcolor only through
\* dropna() and compares no two cell values, so one present gcolor and one
\* representation of a missing value are explored.
InitPeers ==
  /\ df = <<>>
  /\ nanNull = TRUE
  /\ ret = NoCall
LoadPeers == LoadRow(PeerRows, PeerTime, OptionalGroups, OneColorOrNone, OptionalColors)
NextPeers == LoadPeers \/ CallAvgNumPeers
SpecPeers == InitPeers /\ [][NextPeers]_vars

\* ---- community_stay and cyclicity against the community-colour runs ----------
InTable(i) == \E k \in DOMAIN df : df[k].individual = i
\* place of individual i in a metric function's list
KeyPos(i) == CHOOSE k \in DOMAIN GroupKeys(df) : GroupKeys(df)[k] = i
IcolorsOf(i) == Column(GroupRows(df, i), "icolor")

\* equality of two entries: Python's == when py, else null taken as a value
\* like any other, equal to itself
Same(a, b, py) == IF py THEN PyEq(a, b) ELSE a = b

\* first positions of the maximal runs of c under that equality
RunStarts(c, py) == {k \in DOMAIN c : k = 1 \/ ~Same(c[k - 1], c[k], py)}
RunEnd(c, py, s) ==
  CHOOSE e \in s..Len(c) :
    /\ \A j \in (s + 1)..e : j \notin RunStarts(c, py)
    /\ e = Len(c) \/ (e + 1) \in RunStarts(c, py)
RECURSIVE TotalRunLength(_, _, _)
TotalRunLength(c, py, starts) ==
  IF starts = {} THEN 0
  ELSE LET s == CHOOSE x \in starts : TRUE
       IN (RunEnd(c, py, s) - s + 1) + TotalRunLength(c, py, starts \ {s})
MeanRunLength(c, py) ==
  Rat(TotalRunLength(c, py, RunStarts(c, py)), Cardinality(RunStarts(c, py)))

RECURSIVE SeqSum(_)
SeqSum(xs) == IF Len(xs) = 0 THEN 0 ELSE Head(xs) + SeqSum(Tail(xs))

\* C6 as stated: community_stay is the mean length of the maximal runs of
\* equal icolor values, a null entry being a value of the sequence (so that
\* consecutive nulls form one run), and an individual whose colour never
\* changes gets the count of its observations.
C6_Original ==
  ret.fn = "community_stay" =>
    /\ ret.exc = ""
    /\ \A i \in Individuals : InTable(i) =>
         LET c == IcolorsOf(i) IN
           /\ ret.values[KeyPos(i)] = MeanRunLength(c, FALSE)
           /\ (\A k \in DOMAIN c : c[k] = c[1]) => ret.values[KeyPos(i)] = FromInt(Len(c))

\* C6 amended: the runs are those of entries equal under Python's ==, so a
\* NaN entry is a run of its own; the run lengths sum to the number of
\* observations; a constant non-null colour gives the count of observations
\* (1.0 for a single observation, whatever its colour).
C6_CommunityStay ==
  ret.fn = "community_stay" =>
    /\ ret.exc = ""
    /\ Len(ret.values) = Len(GroupKeys(df))
    /\ \A i \in Individuals : InTable(i) =>
         LET c == IcolorsOf(i) IN
           /\ ret.values[KeyPos(i)] = MeanRunLength(c, TRUE)
           /\ SeqSum(StayRuns(GroupRows(df, i))) = Len(c)
           /\ (notna(c[1]) /\ \A k \in DOMAIN c : c[k] = c[1])
                => ret.values[KeyPos(i)] = FromInt(Len(c))
           /\ Len(c) = 1 => ret.values[KeyPos(i)] = FromInt(1)

\* an individual with three observations, a missing colour among them, in two runs
C6_Witness ==
  /\ ret.fn = "community_stay"
  /\ \E i \in Individuals :
       /\ InTable(i)
       /\ Len(IcolorsOf(i)) = 3
       /\ Null \in Values(IcolorsOf(i))
       /\ ret.values[KeyPos(i)] = Rat(3, 2)

\* runs of one colour col: maximal stretches of consecutive entries equal to col
RunsOf(c, col) == Cardinality({k \in DOMAIN c : c[k] = col /\ (k = 1 \/ c[k - 1] # col)})
HeldColors(c) == {v \in Values(c) : notna(v)}
RECURSIVE ReEntries(_, _)
ReEntries(c, cols) ==
  IF cols = {} THEN 0
  ELSE LET col == CHOOSE x \in cols : TRUE
       IN (RunsOf(c, col) - 1) + ReEntries(c, cols \ {col})

\* C7 as stated: cyclicity = R - D with R the number of runs community_stay
\* averages and D the number of distinct colours held (read with or without
\* null counted as a colour).
C7_Original ==
  ret.fn = "cyclicity" =>
    /\ ret.exc = ""
    /\ \A i \in Individuals : InTable(i) =>
         LET c == IcolorsOf(i)
             R == Len(StayRuns(GroupRows(df, i)))
         IN \/ ret.values[KeyPos(i)] = R - Cardinality(HeldColors(c))
            \/ ret.values[KeyPos(i)] = R - Cardinality(Values(c))

\* C7 amended: R counts the maximal runs of non-null colours only (a null
\* entry ends a run and is no run itself), D the distinct non-null colours;
\* the value is never negative, 0 for one observation or an unchanging
\* colour, and a colour with k separate runs contributes k - 1.
C7_Cyclicity ==
  ret.fn = "cyclicity" =>
    /\ ret.exc = ""
    /\ Len(ret.values) = Len(GroupKeys(df))
    /\ \A i \in Individuals : InTable(i) =>
         LET c == IcolorsOf(i)
             v == ret.values[KeyPos(i)]
         IN /\ v = ReEntries(c, HeldColors(c))
            /\ v >= 0
            /\ Len(c) = 1 => v = 0
            /\ (\A k \in DOMAIN c : c[k] = c[1]) => v = 0

\* an individual that left a community for a stretch without one and came back
C7_Witness ==
  /\ ret.fn = "cyclicity"
  /\ \E i \in Individuals :
       /\ InTable(i)
       /\ Len(IcolorsOf(i)) = 3
       /\ IcolorsOf(i)[2] = Null
       /\ ret.values[KeyPos(i)] = 1

\* ---- the metric functions against their stated values ------------------------
RowsOf(i) == {k \in DOMAIN df : df[k].individual = i}
ValueOf(i) == ret.values[KeyPos(i)]
\* mean of f over the rows in Q, 0.0 when Q is empty
MeanOver(f, Q) == IF Q = {} THEN FromInt(0) ELSE Rat(SetSum(f, Q), Cardinality(Q))
FirstAppearance == unique(Column(df, "individual"))

\* C1: the assembled table has one row per distinct individual in
\* first-appearance order, and every metric column holds at place k the value
\* computed from the observations of the k-th individual of the identity column.
C1_Original ==
  (ret.fn = "compute_individual_metrics" /\ ret.exc = "") =>
    LET calls == MetricCalls(df, CHOOSE gs \in group_size(df) : gs.exc = "")
    IN /\ Len(ret.values) = Len(FirstAppearance)
       /\ \A k \in DOMAIN FirstAppearance :
            /\ ret.values[k].individual = FirstAppearance[k]
            /\ \A m \in DOMAIN MetricOrder :
                 ret.values[k][MetricOrder[m]]
                   = calls[MetricOrder[m]].values[KeyPos(FirstAppearance[k])]

\* number of rows of the table at time t whose icolor is c
SharingColor(t, c) == Cardinality({k \in DOMAIN df : df[k].time = t /\ df[k].icolor = c})

\* C2: community_size never fails on a missing icolor, and for an individual
\* all of whose observations have an icolor it is the mean over all its
\* observations of the number of individuals sharing (time, icolor).
C2_Original ==
  ret.fn = "community_size" =>
    /\ ret.exc = ""
    /\ \A i \in Individuals : (InTable(i) /\ \A k \in RowsOf(i) : notna(df[k].icolor)) =>
         ValueOf(i) = MeanOver([k \in DOMAIN df |-> SharingColor(df[k].time, df[k].icolor)],
                               RowsOf(i))

\* C3: inquisitiveness = V / N over the observations with a non-null icolor
\* (whatever their group and gcolor), V counting those whose icolor differs
\* from gcolor; 0.0 when N = 0.
C3_Original ==
  ret.fn = "inquisitiveness" =>
    /\ ret.exc = ""
    /\ \A i \in Individuals : InTable(i) =>
         LET N == {k \in RowsOf(i) : notna(df[k].icolor)}
             V == {k \in N : df[k].icolor # df[k].gcolor}
         IN ValueOf(i) = IF N = {} THEN FromInt(0)
                         ELSE Rat(Cardinality(V), Cardinality(N))

\* G(t): the non-null gcolor values of the rows at time t, empty when none
GColorsAt(t) == {df[k].gcolor : k \in {j \in DOMAIN df : df[j].time = t /\ notna(df[j].gcolor)}}

\* C4: absenteeism = A / T over all observations, A counting those whose icolor
\* differs from gcolor and belongs to G(time).
C4_Original ==
  ret.fn = "absenteeism" =>
    /\ ret.exc = ""
    /\ \A i \in Individuals : InTable(i) =>
         LET A == {k \in RowsOf(i) : /\ df[k].icolor # df[k].gcolor
                                     /\ df[k].icolor \in GColorsAt(df[k].time)}
         IN ValueOf(i) = Rat(Cardinality(A), Cardinality(RowsOf(i)))

\* Subgroup(t, g, c) as the specification defines it: the individuals having a
\* row (t, g, c) with g and c present
Subgroup(t, g, c) ==
  {df[k].individual : k \in {j \in DOMAIN df :
      /\ notna(g) /\ notna(c)
      /\ df[j].time = t /\ df[j].group = g /\ df[j].icolor = c}}
SubgroupOfRow(k) == Subgroup(df[k].time, df[k].group, df[k].icolor)

\* the k-th row of individual i in table order
NthRow(i, n) ==
  CHOOSE k \in RowsOf(i) : Cardinality({m \in RowsOf(i) : m <= k}) = n

SynchronyContribution(k1, k2) ==
  IF isnull(df[k1].group) \/ isnull(df[k2].group) THEN FromInt(0)
  ELSE IF Cardinality(SubgroupOfRow(k2)) = 1 THEN FromInt(0)
  ELSE Rat(Cardinality(SubgroupOfRow(k1) \cap SubgroupOfRow(k2)) - 1,
           Cardinality(SubgroupOfRow(k2)) - 1)

\* C5: peer_synchrony never fails a Subgroup lookup, and is the mean of the
\* stated contribution over the adjacent pairs of observations (stated here
\* for the individuals whose rows with a group also have an icolor).
C5_Original ==
  ret.fn = "peer_synchrony" =>
    /\ ret.exc = ""
    /\ \A i \in Individuals :
         (InTable(i) /\ \A k \in RowsOf(i) : notna(df[k].group) => notna(df[k].icolor)) =>
           ValueOf(i) = avg([n \in 1..(Cardinality(RowsOf(i)) - 1) |->
                               SynchronyContribution(NthRow(i, n), NthRow(i, n + 1))])

CompleteSubgroupOfRow(k) ==
  {df[j].individual : j \in {m \in DOMAIN df :
      /\ RowComplete(df[m])
      /\ df[m].time = df[k].time /\ df[m].group = df[k].group
      /\ df[m].icolor = df[k].icolor}}

Recorded(t, g) == Cardinality({k \in DOMAIN df : df[k].time = t /\ df[k].group = g})

\* C9: group_size is the mean, over the observations with a group, of the number
\* of individuals recorded in that (time, group), 0.0 when there is none
\* (stated for the tables with at least one complete row).
C9_Original ==
  (ret.fn = "group_size" /\ Len(dropna(df)) > 0) =>
    /\ ret.exc = ""
    /\ \A i \in Individuals : InTable(i) =>
         ValueOf(i) = MeanOver([k \in DOMAIN df |-> Recorded(df[k].time, df[k].group)],
                               {k \in RowsOf(i) : notna(df[k].group)})

\* 0-based rank of time t among the distinct times in first-occurrence order
FirstRow(t) == CHOOSE k \in DOMAIN df : df[k].time = t /\ \A j \in 1..(k - 1) : df[j].time # t
TimeRank(t) == Cardinality({df[k].time : k \in 1..(FirstRow(t) - 1)})
TimesOf(c) == {df[k].time : k \in {j \in DOMAIN df : df[j].icolor = c}}
Duration(c) == TimeRank(Max(TimesOf(c))) - TimeRank(Min(TimesOf(c))) + 1

\* C10: individual_apparency is the mean of duration(c) over the distinct
\* non-null colours the individual held, 0.0 (no failed lookup) when it held
\* none, and duration(c) >= 1 for every observed colour.
C10_Original ==
  ret.fn = "individual_apparency" =>
    /\ ret.exc = ""
    /\ \A k \in DOMAIN df : notna(df[k].icolor) => Duration(df[k].icolor) >= 1
    /\ \A i \in Individuals : InTable(i) =>
         LET held == {df[k].icolor : k \in {j \in RowsOf(i) : notna(df[j].icolor)}}
         IN ValueOf(i) = IF held = {} THEN FromInt(0)
                         ELSE Rat(SetSum([c \in held |-> Duration(c)], held), Cardinality(held))

====
